---- MODULE Spec2Model ----
(***************************************************************************)
(* KTRLiteModel (orbit/template/ktrlite.py): construction, which turns the *)
(* seasonality arguments into canonical lists, and set_dynamic_attributes   *)
(* (a "fit call"), which validates the response, builds the regressor       *)
(* matrix, places the level and coefficient knots and asks for the kernels. *)
(*                                                                          *)
(* Representation.                                                          *)
(*   - An optional value is a sequence of length 0 (None / not yet set) or  *)
(*     1 (the value): None == <<>>, Some(x) == <<x>>.                       *)
(*   - A constructor argument that may be None, a number or a list is a     *)
(*     record [k |-> "None" | "num" | "list", v |-> <<...>>].               *)
(*   - A seasonality period may be fractional: it is stored DOUBLED (7 is   *)
(*     14, 2.5 is 5), so that round() is not the identity.                  *)
(*   - A real number (span, time position, mean) is a reduced fraction      *)
(*     [num, den]; NaN is its own value.                                    *)
(*   - A date is a day number; the table's date column holds                *)
(*     start + i * step for i in 0..n-1 (step 1: daily, step 7: weekly).    *)
(*   - A matrix is its shape [rows, cols]: the kernel function and the      *)
(*     fourier generator are external, only their shapes are modelled.      *)
(***************************************************************************)
EXTENDS Integers, Sequences, FiniteSets, TLC

VARIABLES
    args,                           \* the constructor's arguments (public attributes)
    status,                         \* "new", "ok", or the exception __init__ raised
    _seasonality, _seasonality_fs_order,
    _seasonal_initial_knot_scale, _seasonal_knot_scale,
    num_of_regressors, regressor_col, regressor_col_gp,
    coefficients_initial_knot_scale, coefficients_knot_scale,
    _level_knot_dates, date_freq,
    response_offset, is_valid_response, which_valid_response, num_of_valid_response,
    regressor_matrix,
    _cutoff, _knots_idx_level, knots_tp_level, kernel_level, num_knots_level,
    _knots_idx_coef, knots_tp_coefficients, _coef_knot_dates,
    kernel_coefficients, num_knots_coefficients,
    fit_call,                       \* the (df, training_meta) of the latest fit call
    fit_error,                      \* "none", or the exception the latest fit call raised
    knots_call                      \* a direct call of the static _set_knots_tp

ctor_vars == <<_seasonality, _seasonality_fs_order, _seasonal_initial_knot_scale,
               _seasonal_knot_scale, num_of_regressors, regressor_col, regressor_col_gp,
               coefficients_initial_knot_scale, coefficients_knot_scale>>

validate_vars == <<response_offset, is_valid_response, which_valid_response,
                   num_of_valid_response>>

kernel_vars == <<_cutoff, _knots_idx_level, knots_tp_level, kernel_level, num_knots_level,
                 _knots_idx_coef, knots_tp_coefficients, _coef_knot_dates,
                 kernel_coefficients, num_knots_coefficients>>

fit_vars == <<_level_knot_dates, date_freq, validate_vars, regressor_matrix, kernel_vars,
              fit_call, fit_error>>

vars == <<args, status, ctor_vars, fit_vars, knots_call>>

----------------------------------------------------------------------------
(* Values *)

None == <<>>

Some(x) == <<x>>

NoneArg == [k |-> "None", v |-> <<>>]

NumArg(x) == [k |-> "num", v |-> <<x>>]

ListArg(s) == [k |-> "list", v |-> s]

NaN == [nan |-> TRUE, num |-> 0, den |-> 1]

RECURSIVE GCD(_, _)
GCD(a, b) == IF b = 0 THEN a ELSE GCD(b, a % b)

\* the real number n/d (n >= 0, d > 0), reduced
Frac(n, d) == LET g == GCD(n, d) IN [nan |-> FALSE, num |-> n \div g, den |-> d \div g]

\* Python's round() and numpy's np.round() of n/d (n >= 0, d > 0): halves go to the
\* even neighbour
Round(n, d) ==
    LET q == n \div d
        r == n % d
    IN  IF 2 * r < d THEN q
        ELSE IF 2 * r > d THEN q + 1
        ELSE IF q % 2 = 0 THEN q ELSE q + 1

\* math.ceil(n / d)
Ceil(n, d) == (n + d - 1) \div d

RECURSIVE SeqMax(_)
SeqMax(s) ==
    IF Len(s) = 1 THEN s[1]
    ELSE LET m == SeqMax(Tail(s)) IN IF s[1] > m THEN s[1] ELSE m

RECURSIVE Flatten(_)
Flatten(ss) == IF ss = <<>> THEN <<>> ELSE Head(ss) \o Flatten(Tail(ss))

Repeat(x, n) == [i \in 1..n |-> x]

\* Op applied to the value of v, which is computed once
Bind(v, Op(_)) == CHOOSE r \in {Op(x) : x \in {v}} : TRUE

----------------------------------------------------------------------------
(* __init__: _set_default_args and _set_seasonality_attributes *)

\* OrderTooHigh with >= for >: an order of exactly (period - 1) / 2 is rejected
OrderTooHigh_Strict(order, period2) == 4 * order >= period2 - 2

\* line 219: 2 * order > seasonality[k] - 1, the period being stored doubled
OrderTooHigh(order, period2) == 4 * order > period2 - 2

\* BroadcastScale without the "* len(self._seasonality)": always one copy
BroadcastScale_Once(scale, n) ==
    IF scale.k = "num" THEN <<scale.v[1]>> ELSE scale.v

\* lines 222-231: a number is broadcast to one copy per seasonality, a list is kept
BroadcastScale(scale, n) ==
    IF scale.k = "num" THEN Repeat(scale.v[1], n) ELSE scale.v

\* lines 201-231. err is "none" or the exception raised.
SetDefaultArgs(a) ==
    LET seas  == IF a.seasonality.k = "None" THEN <<>> ELSE a.seasonality.v
        ord0  == IF a.seasonality.k = "None" THEN ListArg(<<>>) ELSE a.seasonality_fs_order
        ord1  == IF seas # <<>> /\ ord0.k = "None" THEN ListArg(Repeat(2, Len(seas)))
                 ELSE IF ord0.k = "num" THEN ListArg(ord0.v)
                 ELSE ord0
        ord   == ord1.v
        err   == IF ord1.k = "None" THEN "TypeError"
                 ELSE IF Len(ord) # Len(seas) THEN "IllegalArgument"
                 ELSE IF \E k \in 1..Len(ord) : OrderTooHigh(ord[k], seas[k])
                      THEN "IllegalArgument"
                 ELSE "none"
    IN  [err |-> err,
         seasonality |-> seas,
         fs_order |-> ord,
         initial_knot_scale |-> BroadcastScale(a.seasonal_initial_knot_scale, Len(seas)),
         knot_scale |-> BroadcastScale(a.seasonal_knot_scale, Len(seas))]

\* lines 246-248: the fourier column names of seasonality s (doubled) at the given order
FsCols(s, order) ==
    Flatten([i \in 1..(IF order > 0 THEN order ELSE 0) |->
                <<[seas |-> s, fn |-> "cos", i |-> i], [seas |-> s, fn |-> "sin", i |-> i]>>])

\* lines 233-254. err is "IndexError" when a scale list is shorter than the seasonalities.
SetSeasonalityAttributes(d) ==
    LET n     == Len(d.seasonality)
        short == Len(d.initial_knot_scale) < n \/ Len(d.knot_scale) < n
        reps(idx) == IF d.fs_order[idx] > 0 THEN 2 * d.fs_order[idx] ELSE 0
        gp    == [idx \in 1..n |-> FsCols(d.seasonality[idx], d.fs_order[idx])]
    IN  IF short
        THEN [err |-> "IndexError", regressor_col_gp |-> <<>>, regressor_col |-> <<>>,
              coefficients_initial_knot_scale |-> <<>>, coefficients_knot_scale |-> <<>>]
        ELSE [err |-> "none",
              regressor_col_gp |-> gp,
              regressor_col |-> Flatten(gp),
              coefficients_initial_knot_scale |->
                  Flatten([idx \in 1..n |-> Repeat(d.initial_knot_scale[idx], reps(idx))]),
              coefficients_knot_scale |->
                  Flatten([idx \in 1..n |-> Repeat(d.knot_scale[idx], reps(idx))])]

\* lines 115-188. A raised exception leaves no object: only status records it.
Construct ==
    /\ status = "new"
    /\ LET d == SetDefaultArgs(args)
           r == SetSeasonalityAttributes(d)
       IN  IF d.err # "none"
           THEN /\ status' = d.err
                /\ UNCHANGED ctor_vars
           ELSE IF r.err # "none"
           THEN /\ status' = r.err
                /\ UNCHANGED ctor_vars
           ELSE /\ status' = "ok"
                /\ _seasonality' = d.seasonality
                /\ _seasonality_fs_order' = d.fs_order
                /\ _seasonal_initial_knot_scale' = d.initial_knot_scale
                /\ _seasonal_knot_scale' = d.knot_scale
                /\ regressor_col_gp' = r.regressor_col_gp
                /\ regressor_col' = r.regressor_col
                /\ coefficients_initial_knot_scale' = r.coefficients_initial_knot_scale
                /\ coefficients_knot_scale' = r.coefficients_knot_scale
                /\ num_of_regressors' = Len(r.regressor_col)
    /\ UNCHANGED <<args, fit_vars, knots_call>>

----------------------------------------------------------------------------
(* _set_knots_tp *)

\* np.arange(start, stop, step) for integers, step # 0
Arange(start, stop, step) ==
    LET n == IF step > 0
             THEN (IF stop > start THEN Ceil(stop - start, step) ELSE 0)
             ELSE (IF start > stop THEN Ceil(start - stop, 0 - step) ELSE 0)
    IN  [j \in 1..n |-> start + (j - 1) * step]

RECURSIVE Insert(_, _)
Insert(x, s) ==
    IF s = <<>> THEN <<x>>
    ELSE IF x <= s[1] THEN <<x>> \o s
    ELSE <<s[1]>> \o Insert(x, Tail(s))

\* np.sort
RECURSIVE Sort(_)
Sort(s) == IF s = <<>> THEN <<>> ELSE Insert(s[1], Sort(Tail(s)))

\* MidPointKnots with knots_distance // 2 for round(knots_distance / 2)
MidPointKnots_FloorStart(knots_distance, cutoff) ==
    Arange(knots_distance \div 2, cutoff, knots_distance)

\* lines 315-316
MidPointKnots(knots_distance, cutoff) ==
    Arange(Round(knots_distance, 2), cutoff, knots_distance)

\* line 319
EndPointKnots(knots_distance, cutoff) ==
    Sort(Arange(cutoff - 1, 0, 0 - knots_distance))

\* SetKnotsTp with a final else that falls back to the mid-point placement
SetKnotsTp_Lenient(knots_distance, cutoff, knot_location) ==
    IF knot_location = "end_point"
    THEN [err |-> "none", idx |-> EndPointKnots(knots_distance, cutoff)]
    ELSE [err |-> "none", idx |-> MidPointKnots(knots_distance, cutoff)]

\* lines 311-323. err is "none" or "InvalidKnots" (ModelException 'Invalid knots segment
\* option.')
SetKnotsTp(knots_distance, cutoff, knot_location) ==
    IF knot_location = "mid_point"
    THEN [err |-> "none", idx |-> MidPointKnots(knots_distance, cutoff)]
    ELSE IF knot_location = "end_point"
    THEN [err |-> "none", idx |-> EndPointKnots(knots_distance, cutoff)]
    ELSE [err |-> "InvalidKnots", idx |-> <<>>]

IdleCall == [pc |-> "idle", knots_distance |-> 1, cutoff |-> 1,
             knot_location |-> "mid_point", knots_idx |-> <<>>]

\* a call of the static method on its own: KTRLiteModel._set_knots_tp(d, cutoff, loc)
CallSetKnotsTp ==
    /\ knots_call.pc = "call"
    /\ LET r == SetKnotsTp(knots_call.knots_distance, knots_call.cutoff,
                           knots_call.knot_location)
       IN  knots_call' = [knots_call EXCEPT
                             !.pc = IF r.err = "none" THEN "returned" ELSE r.err,
                             !.knots_idx = r.idx]
    /\ UNCHANGED <<args, status, ctor_vars, fit_vars>>

----------------------------------------------------------------------------
(* set_dynamic_attributes.  A fit call's input is tbl = [start, step, response]: the
   table df has Len(response) rows, its date column holds start + i * step, and
   training_meta gives num_of_observations = Len(response), the response,
   training_start = the first date and training_end = the last date.  An entry of the
   response is Some(v) or None (NaN: missing). *)

NumObs(tbl) == Len(tbl.response)

\* df[date_col].values[i], i counted from 0
DateAt(tbl, i) == tbl.start + i * tbl.step

TrainingStart(tbl) == DateAt(tbl, 0)

TrainingEnd(tbl) == DateAt(tbl, NumObs(tbl) - 1)

\* the mutable fields of the object that a fit call reads or writes
Self ==
    [_level_knot_dates |-> _level_knot_dates, date_freq |-> date_freq,
     response_offset |-> response_offset, is_valid_response |-> is_valid_response,
     which_valid_response |-> which_valid_response,
     num_of_valid_response |-> num_of_valid_response,
     regressor_matrix |-> regressor_matrix,
     _cutoff |-> _cutoff, _knots_idx_level |-> _knots_idx_level,
     knots_tp_level |-> knots_tp_level, kernel_level |-> kernel_level,
     num_knots_level |-> num_knots_level, _knots_idx_coef |-> _knots_idx_coef,
     knots_tp_coefficients |-> knots_tp_coefficients,
     _coef_knot_dates |-> _coef_knot_dates, kernel_coefficients |-> kernel_coefficients,
     num_knots_coefficients |-> num_knots_coefficients,
     err |-> "none"]

\* lines 157, 162, 177-187: those fields as __init__ leaves them
NewSelf(a) ==
    [_level_knot_dates |-> a.level_knot_dates, date_freq |-> a.date_freq,
     response_offset |-> Frac(0, 1), is_valid_response |-> None,
     which_valid_response |-> None, num_of_valid_response |-> 0,
     regressor_matrix |-> None,
     _cutoff |-> None, _knots_idx_level |-> None,
     knots_tp_level |-> None, kernel_level |-> None,
     num_knots_level |-> None, _knots_idx_coef |-> None,
     knots_tp_coefficients |-> None,
     _coef_knot_dates |-> None, kernel_coefficients |-> None,
     num_knots_coefficients |-> None,
     err |-> "none"]

RECURSIVE SumValid(_)
SumValid(r) ==
    IF r = <<>> THEN 0
    ELSE (IF r[1] = None THEN 0 ELSE r[1][1]) + SumValid(Tail(r))

CountValid(r) == Cardinality({i \in 1..Len(r) : r[i] # None})

\* NanMean dividing by the number of all entries, the missing ones included
NanMean_AllEntries(r) == IF r = <<>> THEN NaN ELSE Frac(SumValid(r), Len(r))

\* np.nanmean: the mean of the entries that are not NaN; NaN when there is none
NanMean(r) == IF CountValid(r) = 0 THEN NaN ELSE Frac(SumValid(r), CountValid(r))

\* line 263: np.round(np.max(self._seasonality)), the periods being stored doubled
MaxSeasonality(seas) == Round(SeqMax(seas), 2)

\* response[:m]
Prefix(r, m) == SubSeq(r, 1, IF m < Len(r) THEN m ELSE Len(r))

\* line 277: np.where(mask)[0], indices counted from 0
Where(mask) ==
    LET F[i \in 0..Len(mask)] ==
            IF i = 0 THEN <<>>
            ELSE IF mask[i] THEN Append(F[i - 1], i - 1) ELSE F[i - 1]
    IN  F[Len(mask)]

\* lines 257-278. err "InsufficientHistory" is the ModelException 'Number of observations
\* {} is less than max seasonality {}'.
SetValidateKtrParams(self, seas, tbl) ==
    IF seas # <<>> /\ NumObs(tbl) < MaxSeasonality(seas)
    THEN [self EXCEPT !.err = "InsufficientHistory"]
    ELSE Bind([i \in 1..NumObs(tbl) |-> tbl.response[i] # None], LAMBDA mask :
             [self EXCEPT
                !.response_offset =
                    IF seas # <<>>
                    THEN NanMean(Prefix(tbl.response, MaxSeasonality(seas)))
                    ELSE NanMean(tbl.response),
                !.is_valid_response = Some(mask),
                !.which_valid_response = Some(Where(mask)),
                !.num_of_valid_response = Len(Where(mask))])

\* lines 297-302 (and 280-295: the fourier generator adds one column per name)
SetRegressorMatrix(self, nreg, tbl) ==
    [self EXCEPT !.regressor_matrix = Some([rows |-> NumObs(tbl), cols |-> nreg])]

\* sandwich_kernel(tp, knots_tp): one row per time point, one column per knot
SandwichKernel(ntp, nknots) == [rows |-> ntp, cols |-> nknots]

\* np.timedelta64(1, freq), in days
Unit(freq) == IF freq = "W" THEN 7 ELSE 1

\* lines 304-309: the gap, as the fraction num/den
GetGapBetweenDates(start_date, end_date, freq) ==
    [num |-> end_date - start_date, den |-> Unit(freq)]

\* lines 361-364: (gap + 1) / (gap_end + 1)
GapRatio(gap, gap_end) ==
    Frac((gap.num + gap.den) * gap_end.den, (gap_end.num + gap_end.den) * gap.den)

\* line 359: pd.infer_freq(df[date_col])[0]; pandas raises ValueError below 3 dates
InferFreq(tbl) ==
    IF NumObs(tbl) < 3 THEN [err |-> "ValueError", freq |-> None]
    ELSE [err |-> "none", freq |-> Some(IF tbl.step = 7 THEN "W" ELSE "D")]

\* SpanDistance with a floor (at least 1) for math.ceil
SpanDistance_Floor(span, cutoff) ==
    IF cutoff \div Round(span.den, span.num) = 0 THEN 1
    ELSE cutoff \div Round(span.den, span.num)

\* lines 342-344 (and 377-378): the distance from the span n/d
SpanDistance(span, cutoff) == Ceil(cutoff, Round(span.den, span.num))

\* lines 339-344
LevelKnotsDistance(a, cutoff) ==
    IF a.level_knot_length # None THEN a.level_knot_length[1]
    ELSE SpanDistance(a.span_level, cutoff)

\* lines 374-378
CoefKnotsDistance(a, cutoff) ==
    IF a.coefficients_knot_length # None THEN a.coefficients_knot_length[1]
    ELSE SpanDistance(a.span_coefficients, cutoff)

\* lines 352-355: the dates within the table's first and last date, in the given order
WithinTraining(dates, tbl) ==
    SelectSeq(dates, LAMBDA x : x <= TrainingEnd(tbl) /\ x >= TrainingStart(tbl))

\* lines 338-349: the level knots from the span or the length
LevelKnotsByIndex(self, a, tbl) ==
    LET n == NumObs(tbl)
    IN  Bind(SetKnotsTp(LevelKnotsDistance(a, n), n, a.knot_location), LAMBDA r :
            IF r.err # "none" THEN [self EXCEPT !.err = r.err]
            ELSE [self EXCEPT
                    !._knots_idx_level = Some(r.idx),
                    !.knots_tp_level =
                        Some([j \in 1..Len(r.idx) |-> Frac(1 + r.idx[j], n)]),
                    !._level_knot_dates =
                        Some([j \in 1..Len(r.idx) |-> DateAt(tbl, r.idx[j])])])

\* lines 350-364: the level knots from self._level_knot_dates
LevelKnotsByDate(self, tbl) ==
    Bind(WithinTraining(self._level_knot_dates[1], tbl), LAMBDA dates :
        LET s1    == [self EXCEPT !._level_knot_dates = Some(dates)]
            inf   == InferFreq(tbl)
            s2    == IF self.date_freq = None THEN [s1 EXCEPT !.date_freq = inf.freq]
                     ELSE s1
            freq  == s2.date_freq[1]
            start_date == TrainingStart(tbl)
        IN  IF self.date_freq = None /\ inf.err # "none" THEN [s1 EXCEPT !.err = inf.err]
            ELSE [s2 EXCEPT
                    !.knots_tp_level = Some([j \in 1..Len(dates) |->
                        GapRatio(GetGapBetweenDates(start_date, dates[j], freq),
                                 GetGapBetweenDates(start_date, TrainingEnd(tbl), freq))])])

\* line 338: the level knots are placed by index only while no knot dates are held
SetLevelKnots(self, a, tbl) ==
    IF self._level_knot_dates = None
    THEN LevelKnotsByIndex(self, a, tbl)
    ELSE LevelKnotsByDate(self, tbl)

\* lines 373-385
SetCoefKnots(self, a, tbl) ==
    LET n == NumObs(tbl)
    IN  Bind(SetKnotsTp(CoefKnotsDistance(a, n), n, a.knot_location), LAMBDA r :
            IF r.err # "none" THEN [self EXCEPT !.err = r.err]
            ELSE [self EXCEPT
                    !._knots_idx_coef = Some(r.idx),
                    !.knots_tp_coefficients =
                        Some([j \in 1..Len(r.idx) |-> Frac(1 + r.idx[j], n)]),
                    !._coef_knot_dates =
                        Some([j \in 1..Len(r.idx) |-> DateAt(tbl, r.idx[j])]),
                    !.kernel_coefficients = Some(SandwichKernel(n, Len(r.idx))),
                    !.num_knots_coefficients = Some(Len(r.idx))])

\* lines 325-385
SetKernelMatrix(self, a, nreg, tbl) ==
    LET n == NumObs(tbl)
    IN  Bind(SetLevelKnots([self EXCEPT !._cutoff = Some(n)], a, tbl), LAMBDA s1 :
            IF s1.err # "none" THEN s1
            ELSE Bind([s1 EXCEPT
                        !.kernel_level = Some(SandwichKernel(n, Len(s1.knots_tp_level[1]))),
                        !.num_knots_level = Some(Len(s1.knots_tp_level[1])),
                        !.kernel_coefficients = Some(SandwichKernel(n, 0)),
                        !.num_knots_coefficients = Some(0)], LAMBDA s2 :
                    IF nreg > 0 THEN SetCoefKnots(s2, a, tbl) ELSE s2))

\* lines 387-395: the object's fields when the call returns or raises
SetDynamicAttributes(self, a, seas, nreg, tbl) ==
    Bind(SetValidateKtrParams(self, seas, tbl), LAMBDA s1 :
        IF s1.err # "none" THEN s1
        ELSE Bind(SetRegressorMatrix(s1, nreg, tbl), LAMBDA s2 :
                SetKernelMatrix(s2, a, nreg, tbl)))

\* one fit call on the constructed object
Fit(tbl) ==
    /\ status = "ok"
    /\ \E s \in {SetDynamicAttributes(Self, args, _seasonality, num_of_regressors, tbl)} :
           /\ _level_knot_dates' = s._level_knot_dates
           /\ date_freq' = s.date_freq
           /\ response_offset' = s.response_offset
           /\ is_valid_response' = s.is_valid_response
           /\ which_valid_response' = s.which_valid_response
           /\ num_of_valid_response' = s.num_of_valid_response
           /\ regressor_matrix' = s.regressor_matrix
           /\ _cutoff' = s._cutoff
           /\ _knots_idx_level' = s._knots_idx_level
           /\ knots_tp_level' = s.knots_tp_level
           /\ kernel_level' = s.kernel_level
           /\ num_knots_level' = s.num_knots_level
           /\ _knots_idx_coef' = s._knots_idx_coef
           /\ knots_tp_coefficients' = s.knots_tp_coefficients
           /\ _coef_knot_dates' = s._coef_knot_dates
           /\ kernel_coefficients' = s.kernel_coefficients
           /\ num_knots_coefficients' = s.num_knots_coefficients
           /\ fit_error' = s.err
    /\ fit_call' = Some(tbl)
    /\ UNCHANGED <<args, status, ctor_vars, knots_call>>

----------------------------------------------------------------------------
(* Inputs and specifications *)

MaxSeas == 2            \* seasonality and order lists have up to MaxSeas entries

MaxScaleLen == 3        \* prior-scale lists have up to MaxScaleLen entries

MaxDistance == 7        \* direct calls of _set_knots_tp: knots_distance in 1..MaxDistance

MaxCutoff == 8          \* direct calls of _set_knots_tp: cutoff in 1..MaxCutoff

MaxObs == 5             \* Spec: tables of up to MaxObs rows

MaxObsSpan == 12        \* SpecSpan: tables of up to MaxObsSpan rows

MaxObsValid == 3        \* SpecValidate: responses of up to MaxObsValid entries

Periods == {5, 6, 10}   \* 2.5, 3 and 5 observations per cycle (doubled)

Orders == {0, 1, 2}

Locations == {"mid_point", "end_point", "quarter_point"}

Spans == {[num |-> 1, den |-> 10], [num |-> 3, den |-> 10], [num |-> 2, den |-> 5],
          [num |-> 1, den |-> 4], [num |-> 9, den |-> 10]}

SeqsUpTo(S, n) == UNION {[1..k -> S] : k \in 0..n}

\* the signature's defaults (lines 117-130); the scales are in tenths
DefaultArgs ==
    [seasonality |-> NoneArg, seasonality_fs_order |-> NoneArg,
     seasonal_initial_knot_scale |-> NumArg(10), seasonal_knot_scale |-> NumArg(1),
     span_level |-> [num |-> 1, den |-> 10], span_coefficients |-> [num |-> 3, den |-> 10],
     level_knot_dates |-> None, level_knot_length |-> None,
     coefficients_knot_length |-> None, knot_location |-> "mid_point",
     date_freq |-> None]

AnyArg(S, n) == {NoneArg} \cup {NumArg(x) : x \in S} \cup {ListArg(q) : q \in SeqsUpTo(S, n)}

ScaleArg(x) == {NumArg(x)} \cup {ListArg(q) : q \in SeqsUpTo({x}, MaxScaleLen)}

\* constructions over every shape of the seasonality arguments
CtorArgs ==
    {[DefaultArgs EXCEPT !.seasonality = se, !.seasonality_fs_order = fo,
                         !.seasonal_initial_knot_scale = si, !.seasonal_knot_scale = sk] :
        se \in AnyArg(Periods, MaxSeas), fo \in AnyArg(Orders, MaxSeas),
        si \in ScaleArg(10), sk \in ScaleArg(1)}

NoSeason == <<NoneArg, NoneArg>>

Season3 == <<ListArg(<<6>>), ListArg(<<1>>)>>

\* objects with and without explicit level knot dates, lengths and date_freq
FitArgs ==
    {[DefaultArgs EXCEPT !.seasonality = so[1], !.seasonality_fs_order = so[2],
                         !.span_level = [num |-> 3, den |-> 10],
                         !.level_knot_dates = kd, !.level_knot_length = kl,
                         !.knot_location = loc, !.date_freq = df] :
        so \in {NoSeason, Season3},
        kd \in {None, Some(<<2, 8>>), Some(<<8, 2>>)},
        kl \in {None, Some(2)},
        loc \in Locations,
        df \in {None, Some("D"), Some("W")}}

\* objects whose knots are placed from the spans alone
SpanArgs ==
    {[DefaultArgs EXCEPT !.seasonality = so[1], !.seasonality_fs_order = so[2],
                         !.span_level = sl, !.span_coefficients = sc,
                         !.knot_location = loc] :
        so \in {NoSeason, Season3}, sl \in Spans, sc \in Spans,
        loc \in {"mid_point", "end_point"}}

\* objects with several seasonality settings: none, 3, 2.5, 3.5 and [3, 3.5]; and one
\* with an unknown knot location
ValidateArgs ==
    {[DefaultArgs EXCEPT !.seasonality = so[1], !.seasonality_fs_order = so[2]] :
        so \in {NoSeason, Season3, <<ListArg(<<5>>), ListArg(<<0>>)>>,
                <<NumArg(7), NumArg(1)>>, <<ListArg(<<6, 7>>), ListArg(<<1, 1>>)>>}}
    \cup {[DefaultArgs EXCEPT !.seasonality = Season3[1],
                              !.seasonality_fs_order = Season3[2],
                              !.knot_location = "quarter_point"]}

Ones(n) == [i \in 1..n |-> Some(1)]

\* daily and weekly tables, and one with a missing response
Tables ==
    {[start |-> st, step |-> sp, response |-> Ones(n)] :
        st \in {0, 1}, sp \in {1, 7}, n \in 1..MaxObs}
    \cup {[start |-> 0, step |-> 1, response |-> <<None, Some(2), Some(2)>>]}

SpanTables ==
    {[start |-> 0, step |-> 1, response |-> Ones(n)] : n \in 1..MaxObsSpan}

ValidateTables ==
    {[start |-> 0, step |-> 1, response |-> r] :
        r \in UNION {[1..n -> {None, Some(1), Some(2)}] : n \in 1..MaxObsValid}}

InitWith(A) ==
    /\ args \in A
    /\ status = "new"
    /\ _seasonality = <<>>
    /\ _seasonality_fs_order = <<>>
    /\ _seasonal_initial_knot_scale = <<>>
    /\ _seasonal_knot_scale = <<>>
    /\ num_of_regressors = 0
    /\ regressor_col = <<>>
    /\ regressor_col_gp = <<>>
    /\ coefficients_initial_knot_scale = <<>>
    /\ coefficients_knot_scale = <<>>
    /\ _level_knot_dates = NewSelf(args)._level_knot_dates
    /\ date_freq = NewSelf(args).date_freq
    /\ response_offset = NewSelf(args).response_offset
    /\ is_valid_response = NewSelf(args).is_valid_response
    /\ which_valid_response = NewSelf(args).which_valid_response
    /\ num_of_valid_response = NewSelf(args).num_of_valid_response
    /\ regressor_matrix = NewSelf(args).regressor_matrix
    /\ _cutoff = NewSelf(args)._cutoff
    /\ _knots_idx_level = NewSelf(args)._knots_idx_level
    /\ knots_tp_level = NewSelf(args).knots_tp_level
    /\ kernel_level = NewSelf(args).kernel_level
    /\ num_knots_level = NewSelf(args).num_knots_level
    /\ _knots_idx_coef = NewSelf(args)._knots_idx_coef
    /\ knots_tp_coefficients = NewSelf(args).knots_tp_coefficients
    /\ _coef_knot_dates = NewSelf(args)._coef_knot_dates
    /\ kernel_coefficients = NewSelf(args).kernel_coefficients
    /\ num_knots_coefficients = NewSelf(args).num_knots_coefficients
    /\ fit_call = None
    /\ fit_error = "none"

Init ==
    /\ InitWith(FitArgs)
    /\ knots_call = IdleCall

Next ==
    \/ Construct
    \/ \E tbl \in Tables : Fit(tbl)

Spec == Init /\ [][Next]_vars

InitCtor ==
    /\ InitWith(CtorArgs)
    /\ knots_call = IdleCall

NextCtor == Construct

SpecCtor == InitCtor /\ [][NextCtor]_vars

InitKnots ==
    /\ InitWith({DefaultArgs})
    /\ knots_call \in [pc : {"call"}, knots_distance : 1..MaxDistance,
                       cutoff : 1..MaxCutoff, knot_location : Locations,
                       knots_idx : {<<>>}]

NextKnots == CallSetKnotsTp

SpecKnots == InitKnots /\ [][NextKnots]_vars

InitSpan ==
    /\ InitWith(SpanArgs)
    /\ knots_call = IdleCall

NextSpan ==
    \/ Construct
    \/ \E tbl \in SpanTables : Fit(tbl)

SpecSpan == InitSpan /\ [][NextSpan]_vars

InitValidate ==
    /\ InitWith(ValidateArgs)
    /\ knots_call = IdleCall

NextValidate ==
    \/ Construct
    \/ \E tbl \in ValidateTables : Fit(tbl)

SpecValidate == InitValidate /\ [][NextValidate]_vars

----------------------------------------------------------------------------
(* Properties *)

StrictlyIncreasing(q) == \A i \in 1..(Len(q) - 1) : q[i] < q[i + 1]

Within(q, lo, hi) == \A i \in 1..Len(q) : lo <= q[i] /\ q[i] < hi

Range(q) == {q[i] : i \in 1..Len(q)}

Abs(x) == IF x < 0 THEN 0 - x ELSE x

Returned == knots_call.pc = "returned"

\* C6 as stated: for knots_distance >= 1 and cutoff >= 1 the indices _set_knots_tp
\* returns are strictly increasing and within [0, cutoff) in both modes; in mid_point
\* mode the first index is round(knots_distance / 2) and the number of indices is
\* within 1 of ceil(cutoff / knots_distance).
C6_FirstKnotAlwaysExists ==
    Returned =>
        /\ StrictlyIncreasing(knots_call.knots_idx)
        /\ Within(knots_call.knots_idx, 0, knots_call.cutoff)
        /\ knots_call.knot_location = "mid_point" =>
            /\ knots_call.knots_idx # <<>>
            /\ knots_call.knots_idx[1] = Round(knots_call.knots_distance, 2)
            /\ Abs(Len(knots_call.knots_idx)
                   - Ceil(knots_call.cutoff, knots_call.knots_distance)) <= 1

\* C6 amended: as stated, except that in mid_point mode the sequence is empty when
\* round(knots_distance / 2) >= cutoff, and has round(knots_distance / 2) as its first
\* index otherwise.
C6_KnotsWithinCutoff ==
    Returned =>
        /\ StrictlyIncreasing(knots_call.knots_idx)
        /\ Within(knots_call.knots_idx, 0, knots_call.cutoff)
        /\ knots_call.knot_location = "mid_point" =>
            /\ knots_call.knots_idx # <<>>
                  <=> Round(knots_call.knots_distance, 2) < knots_call.cutoff
            /\ knots_call.knots_idx # <<>>
                  => knots_call.knots_idx[1] = Round(knots_call.knots_distance, 2)
            /\ Abs(Len(knots_call.knots_idx)
                   - Ceil(knots_call.cutoff, knots_call.knots_distance)) <= 1

\* a mid_point call that returns several knots, one fewer than ceil(cutoff / distance),
\* the first one at a rounded-up half
C6_Witness ==
    /\ Returned
    /\ knots_call.knot_location = "mid_point"
    /\ knots_call.knots_distance = 3
    /\ Len(knots_call.knots_idx) >= 2
    /\ knots_call.knots_idx[1] = 2
    /\ Len(knots_call.knots_idx) = Ceil(knots_call.cutoff, knots_call.knots_distance) - 1

\* C10: in end_point mode the returned knots are exactly the indices
\* cutoff - 1 - k * knots_distance (k = 0, 1, ...) within [0, cutoff), ascending; index
\* cutoff - 1 is always a knot and index 0 is one when the count reaches it.
C10_EndPointReachesZero ==
    Returned /\ knots_call.knot_location = "end_point" =>
        /\ StrictlyIncreasing(knots_call.knots_idx)
        /\ Range(knots_call.knots_idx) =
              {i \in 0..(knots_call.cutoff - 1) :
                  \E k \in 0..knots_call.cutoff :
                      i = knots_call.cutoff - 1 - k * knots_call.knots_distance}

Constructed == status # "new"

\* seasonality and seasonality_fs_order both given as lists of one length
EqualLists ==
    /\ args.seasonality.k = "list"
    /\ args.seasonality_fs_order.k = "list"
    /\ Len(args.seasonality.v) = Len(args.seasonality_fs_order.v)

\* some index k has 2 * o[k] > p[k] - 1 (the periods being stored doubled)
SomeOrderTooHigh ==
    \E k \in 1..Len(args.seasonality.v) :
        4 * args.seasonality_fs_order.v[k] > args.seasonality.v[k] - 2

\* a prior scale given as a list has an entry for every seasonality
ScaleCovers(scale) == scale.k = "num" \/ Len(scale.v) >= Len(args.seasonality.v)

\* C4 as stated: with periods and orders of equal length, construction succeeds if and
\* only if 2 * o[k] <= p[k] - 1 for every k, and is rejected with IllegalArgument when
\* some k has 2 * o[k] > p[k] - 1.
C4_SucceedsIffOrdersFit ==
    Constructed /\ EqualLists =>
        /\ status = "ok" <=> ~SomeOrderTooHigh
        /\ SomeOrderTooHigh => status = "IllegalArgument"

\* C4 amended: construction is rejected with IllegalArgument if and only if some k has
\* 2 * o[k] > p[k] - 1; it succeeds if and only if no k has, and each prior scale is a
\* number or a list with at least one entry per seasonality.
C4_RejectedIffOrderTooHigh ==
    Constructed /\ EqualLists =>
        /\ status = "IllegalArgument" <=> SomeOrderTooHigh
        /\ status = "ok" <=>
              /\ ~SomeOrderTooHigh
              /\ ScaleCovers(args.seasonal_initial_knot_scale)
              /\ ScaleCovers(args.seasonal_knot_scale)

\* two seasonalities, the first order fits exactly (2 * 1 = 3 - 1), the second does not
C4_Witness ==
    /\ status = "IllegalArgument"
    /\ EqualLists
    /\ args.seasonality.v = <<6, 6>>
    /\ args.seasonality_fs_order.v = <<1, 2>>

ScalarDefault ==
    args.seasonality.k = "num" /\ args.seasonality_fs_order.k = "None" =>
        /\ _seasonality = args.seasonality.v
        /\ _seasonality_fs_order = <<2>>

\* C5 as stated: after a successful construction the four canonical lists have equal
\* length, whatever the shape of the four inputs; a scalar seasonality with no order
\* gives a one-element seasonality list and the order list [2].
C5_FourListsEqualLength ==
    status = "ok" =>
        /\ Len(_seasonality_fs_order) = Len(_seasonality)
        /\ Len(_seasonal_initial_knot_scale) = Len(_seasonality)
        /\ Len(_seasonal_knot_scale) = Len(_seasonality)
        /\ ScalarDefault

ScaleKept(scale, canonical) ==
    /\ scale.k = "num" => Len(canonical) = Len(_seasonality)
    /\ scale.k = "list" => canonical = scale.v /\ Len(canonical) >= Len(_seasonality)

\* C5 amended: after a successful construction the seasonality and order lists have
\* equal length; a prior scale given as a number has that length too, one given as a
\* list is kept as given and is at least that long; the scalar case is as stated.
C5_ListsEqualScalesKept ==
    status = "ok" =>
        /\ Len(_seasonality_fs_order) = Len(_seasonality)
        /\ ScaleKept(args.seasonal_initial_knot_scale, _seasonal_initial_knot_scale)
        /\ ScaleKept(args.seasonal_knot_scale, _seasonal_knot_scale)
        /\ ScalarDefault

\* a scalar seasonality (5) with no order and numeric scales: order [2], scales broadcast
C5_Witness ==
    /\ status = "ok"
    /\ args.seasonality = NumArg(10)
    /\ args.seasonality_fs_order = NoneArg
    /\ _seasonality = <<10>>
    /\ _seasonality_fs_order = <<2>>
    /\ _seasonal_initial_knot_scale = <<10>>
    /\ _seasonal_knot_scale = <<1>>
    /\ num_of_regressors = 4

----------------------------------------------------------------------------
(* Properties of a fit call *)

Fitted == fit_call # None

LastTable == fit_call[1]

LastObs == Len(LastTable.response)

Seasonal == _seasonality # <<>>

\* round(max(seasonality)): a doubled period h is h / 2 when even, and otherwise lies
\* halfway between (h - 1) / 2 and (h + 1) / 2, where round() takes the even one
RoundedMaxSeasonality ==
    LET h  == CHOOSE x \in Range(_seasonality) : \A y \in Range(_seasonality) : y <= x
        lo == (h - 1) \div 2
    IN  IF h % 2 = 0 THEN h \div 2 ELSE IF lo % 2 = 0 THEN lo ELSE lo + 1

TooShort == Seasonal /\ LastObs < RoundedMaxSeasonality

\* the entries the offset is taken over, and those of them that are not missing
OffsetWindow == 1..(IF Seasonal THEN RoundedMaxSeasonality ELSE LastObs)

OffsetValid == {i \in OffsetWindow : LastTable.response[i] # None}

RECURSIVE SumAt(_, _)
SumAt(r, I) ==
    IF I = {} THEN 0
    ELSE LET i == CHOOSE j \in I : TRUE IN r[i][1] + SumAt(r, I \ {i})

\* C8: the fit raises the insufficient-history error exactly when a seasonality is
\* configured and num_of_observations < m = round(max(seasonality)); when it does not,
\* response_offset is the mean of the non-missing responses among the first m (among
\* all when there is no seasonality; NaN when there is none to average), and
\* num_of_valid_response is the number of non-missing responses.
C8_ValidatorContract ==
    Fitted =>
        /\ fit_error = "InsufficientHistory" <=> TooShort
        /\ fit_error # "InsufficientHistory" =>
              /\ response_offset.nan <=> OffsetValid = {}
              /\ response_offset.num * Cardinality(OffsetValid)
                    = response_offset.den * SumAt(LastTable.response, OffsetValid)
              /\ num_of_valid_response =
                    Cardinality({i \in 1..LastObs : LastTable.response[i] # None})

\* seasonality 2.5, so m = 2: the offset is that of (NaN, 1), the third response (2)
\* and every later one left out
C8_Witness ==
    /\ Fitted
    /\ fit_error = "none"
    /\ _seasonality = <<5>>
    /\ LastTable.response = <<None, Some(1), Some(2)>>
    /\ response_offset = Frac(1, 1)
    /\ num_of_valid_response = 2

FitDone == Fitted /\ fit_error = "none"

\* round(1 / span)
SpanKnots(span) == Round(span.den, span.num)

AsClaimed(count, wanted) ==
    /\ count \in {wanted, wanted - 1}
    /\ count = wanted - 1 => LastObs % wanted # 0

\* C7 as stated: with span-based placement the number of knots after a fit is
\* round(1 / span) or one fewer, and one fewer only when num_of_observations is not a
\* multiple of round(1 / span); for the level and for the coefficient knots.
C7_KnotCountWithinOne ==
    FitDone =>
        /\ AsClaimed(num_knots_level[1], SpanKnots(args.span_level))
        /\ num_of_regressors > 0 =>
              AsClaimed(num_knots_coefficients[1], SpanKnots(args.span_coefficients))

\* C7 amended: the number of knots after a fit never exceeds round(1 / span), for the
\* level and for the coefficient knots, and may fall short of it by more than one; the
\* coefficient knots in mid_point mode number exactly round(1 / span) whenever
\* num_of_observations is a multiple of it.
C7_KnotCountAtMost ==
    FitDone =>
        /\ num_knots_level[1] <= SpanKnots(args.span_level)
        /\ num_of_regressors > 0 =>
              /\ num_knots_coefficients[1] <= SpanKnots(args.span_coefficients)
              /\ (/\ args.knot_location = "mid_point"
                  /\ LastObs % SpanKnots(args.span_coefficients) = 0)
                    => num_knots_coefficients[1] = SpanKnots(args.span_coefficients)

\* 12 observations: span_coefficients 0.25 gives its 4 knots, span_level 0.1 gives
\* 6 level knots for round(1 / 0.1) = 10
C7_Witness ==
    /\ FitDone
    /\ LastObs = 12
    /\ args.knot_location = "mid_point"
    /\ args.span_coefficients = [num |-> 1, den |-> 4]
    /\ num_knots_coefficients = Some(4)
    /\ args.span_level = [num |-> 1, den |-> 10]
    /\ num_knots_level = Some(6)

\* what a newly constructed object of the same configuration makes of the latest table
OnNewObject ==
    SetDynamicAttributes(NewSelf(args), args, _seasonality, num_of_regressors, LastTable)

\* C1: the level knots a fit call publishes (knots_tp_level, num_knots_level) are those
\* a newly constructed object of the same configuration publishes for the same table:
\* nothing an earlier fit computed influences a later one.
C1_FitAsOnNewObject ==
    FitDone =>
        /\ OnNewObject.err = "none"
        /\ knots_tp_level = OnNewObject.knots_tp_level
        /\ num_knots_level = OnNewObject.num_knots_level

\* C2: a fit call that fails with the insufficient-history or the invalid-knot-location
\* error has assigned none of the published fields.
C2_FailedFitAssignsNothing ==
    [][fit_error' \in {"InsufficientHistory", "InvalidKnots"} =>
          UNCHANGED <<response_offset, is_valid_response, num_of_valid_response,
                      regressor_matrix, kernel_level, num_knots_level,
                      kernel_coefficients, num_knots_coefficients>>]_vars

UnknownLocation == args.knot_location \notin {"mid_point", "end_point"}

\* C3 as stated: with a knot_location other than 'mid_point' and 'end_point' every fit
\* call fails with the invalid-knot-location error, whatever the other options; in
\* particular no fit call of such an object completes, which is what is stated here.
C3_UnknownLocationNeverCompletes ==
    Fitted /\ UnknownLocation => fit_error # "none"

\* C3 amended: with such a knot_location a fit call fails with the invalid-knot-location
\* error exactly when it has enough history and either no level_knot_dates were given or
\* there is a regressor; it fails with the insufficient-history error exactly when the
\* history is too short.
C3_UnknownLocationFailsWhenRead ==
    Fitted /\ UnknownLocation =>
        /\ fit_error = "InsufficientHistory" <=> TooShort
        /\ fit_error = "InvalidKnots" <=>
              /\ ~TooShort
              /\ args.level_knot_dates = None \/ num_of_regressors > 0

\* level knot dates given and a seasonality: the level knots are placed from the dates,
\* and the coefficient knots raise the error
C3_Witness ==
    /\ Fitted
    /\ UnknownLocation
    /\ args.level_knot_dates # None
    /\ num_of_regressors > 0
    /\ kernel_level # None
    /\ fit_error = "InvalidKnots"

\* the unit the gaps are measured in: date_freq as given, else inferred from the table
GapUnit ==
    IF args.date_freq # None THEN (IF args.date_freq[1] = "W" THEN 7 ELSE 1)
    ELSE LastTable.step

FirstDate == LastTable.start

LastDate == LastTable.start + (LastObs - 1) * LastTable.step

\* the dates given that lie within the first and the last observed date
DatesGivenWithin ==
    SelectSeq(args.level_knot_dates[1], LAMBDA x : FirstDate <= x /\ x <= LastDate)

\* position f is (gap(date) + 1) / (gap(last date) + 1), gaps counted in GapUnit days
AtPosition(f, date) ==
    f.num * ((LastDate - FirstDate) + GapUnit) = f.den * ((date - FirstDate) + GapUnit)

\* C9: with level_knot_dates given, the level knots after a fit are exactly the given
\* dates within [first observed date, last observed date], each at position
\* (gap(date) + 1) / (gap(training_end) + 1); the positions lie in (0, 1] and are
\* strictly increasing.  Stated here for the lists given in increasing order, which
\* the claim covers.
C9_KnotsAreDatesGiven ==
    (/\ FitDone
     /\ args.level_knot_dates # None
     /\ StrictlyIncreasing(args.level_knot_dates[1])) =>
        LET tp == knots_tp_level[1] IN
        /\ Len(tp) = Len(DatesGivenWithin)
        /\ \A j \in 1..Len(tp) :
              /\ AtPosition(tp[j], DatesGivenWithin[j])
              /\ 0 < tp[j].num /\ tp[j].num <= tp[j].den
        /\ \A j \in 1..(Len(tp) - 1) : tp[j].num * tp[j + 1].den < tp[j + 1].num * tp[j].den

====
